---- MODULE Spec2Model ----
(***************************************************************************)
(* Legalese-to-Simplese front end: the router-based app (Home, Upload,     *)
(* Analysis pages sharing one analysis context and one local-storage key), *)
(* the same app with the demo variant of the Upload page, and the plain    *)
(* multi-page app (App with the DocumentUpload component).                 *)
(* One module, one state machine: `app` says which prototype is running.   *)
(*                                                                         *)
(* Spec explores the apps from their start without the Q&A handlers of the *)
(* Analysis page, which read and write the chat state of that page only;   *)
(* SpecAnalysis explores one Analysis page, from its mount to its unmount, *)
(* with them; SpecOverlay explores one Upload page with the ticks of its   *)
(* loading overlay.  The browser's Back button is modelled on the Analysis *)
(* page, for the pages the app reaches it from.                            *)
(*                                                                         *)
(* A step is one run of the event loop: an event handler, a timer callback *)
(* or the continuation of an async function after its await, run to its    *)
(* end, with the state React commits after it.  An alert() is shown and    *)
(* dismissed inside the step that calls it.  Mount effects run once, as in *)
(* a production build.                                                     *)
(***************************************************************************)
EXTENDS Integers, Sequences, FiniteSets, Bags, TLC

\* ------------------------------------------------------------------ bounds
MaxRequests == 2     \* POSTs that may be in flight at once
MaxFetches == 2      \* analysis GETs that may be in flight at once
MaxTimers == 2       \* analysis timers of DocumentUpload that may be pending at once
MaxSent == 2         \* chat messages a visitor sends on one Analysis page

\* --------------------------------------------------------------- constants
Null == [isNull |-> TRUE]     \* JavaScript null (state that holds an object or null)
NoError == "null"             \* Analysis: error === null
NoAlert == "no alert"
NoEntry == "no entry"         \* localStorage.getItem returned null

MaxFileSize == 10 * 1024 * 1024
MaxScore == 10

\* CustomLoadingOverlay: the default of its `initial` prop, the cap of the
\* progress, the progress above which the stage switches, and the bound of one
\* tick's advance, Math.random() * 8.
initial == 5
ProgressCap == 95
FinalizingAbove == 70
MaxAdvance == 8

\* Contents of a text box, as sequences of characters: empty, white space only,
\* plain, and padded with white space on both sides.
Texts == {<<>>, <<" ">>, <<"a">>, <<" ", "a", " ">>}

\* String.prototype.trim: leading and trailing white space removed.
RECURSIVE TrimLeft(_)
TrimLeft(s) ==
  IF s # <<>> /\ Head(s) = " " THEN TrimLeft(Tail(s)) ELSE s

RECURSIVE TrimRight(_)
TrimRight(s) ==
  IF s # <<>> /\ s[Len(s)] = " " THEN TrimRight(SubSeq(s, 1, Len(s) - 1)) ELSE s

Trim(s) == TrimRight(TrimLeft(s))

\* The MIME type the browser reports in File.type for a file extension.
MimeOf(ext) ==
  CASE ext = "pdf" -> "application/pdf"
    [] ext = "doc" -> "application/msword"
    [] ext = "docx" -> "application/vnd.openxmlformats-officedocument.wordprocessingml.document"
    [] ext = "txt" -> "text/plain"
    [] OTHER -> "image/png"

Exts == {"pdf", "doc", "docx", "txt", "png"}

\* The formats the upload area advertises and its file input accepts.
AdvertisedTypes == {MimeOf(x) : x \in {"pdf", "doc", "docx", "txt"}}

FileSizes == {1, MaxFileSize, MaxFileSize + 1}

Files == {[type |-> MimeOf(x), size |-> s] : x \in Exts, s \in FileSizes}

\* const allowedTypes = ['application/pdf']
allowedTypes == {"application/pdf"}

\* A risk bucket of Risk_Assessment: absent from the payload, or a list of risks.
Absent == [present |-> FALSE, items |-> <<>>]

Bucket(items) == [present |-> TRUE, items |-> items]

\* Risk_Assessment of a payload: the score and the three optional buckets are
\* all the pages compute on.
Assessment(score, high, medium, low) ==
  [Risk_Score |-> score, High_Risk |-> high, Medium_Risk |-> medium, Low_Risk |-> low]

\* The payload the demo variant of Upload puts in the context: score 9, two high
\* risks, two medium risks, no Low_Risk.
DemoPayload ==
  Assessment(9, Bucket(<<"Steep Late Fee Penalty", "Deposit Forfeiture Clause">>),
                Bucket(<<"Vague Maintenance Terms", "Notice Period Ambiguity">>), Absent)

\* Payloads with every subset of the buckets present, empty and filled.
BucketPayloads ==
  {Assessment(9, high, medium, low) :
     high \in {Absent, Bucket(<<>>), Bucket(<<"h1">>)},
     medium \in {Absent, Bucket(<<>>), Bucket(<<"m1", "m2">>)},
     low \in {Absent, Bucket(<<>>), Bucket(<<"l1">>)}}

\* Analysis payloads of the backend.
Payloads ==
  {Assessment(n, Absent, Absent, Absent) : n \in (0 - 1)..(MaxScore + 1)}
    \cup BucketPayloads \cup {DemoPayload}

PostPayloads == {DemoPayload, Assessment(3, Absent, Absent, Absent)}

\* Values of localStorage['legalAnalysisData'] and JSON.parse of them.
StorageValues == {NoEntry, "", "{", "{}", "{pasteText}"}

JsonParse(s) ==
  CASE s = "{}" -> [ok |-> TRUE, pasteText |-> <<>>]
    [] s = "{pasteText}" -> [ok |-> TRUE, pasteText |-> <<"a">>]
    [] OTHER -> [ok |-> FALSE, pasteText |-> <<>>]

VARIABLES
  app,            \* "router", "demo" or "plain": which prototype is running
  route,          \* router app: the current path
  storage,        \* localStorage['legalAnalysisData']
  analysis,       \* AnalysisContext value
  alertMsg,       \* the alert() shown by the last step, or NoAlert
  upActiveTab,    \* Upload: activeTab
  hasFile,        \* Upload: hasFile
  fileObj,        \* Upload: fileObj
  pasteText,      \* Upload: pasteText
  upLoading,      \* Upload: loading (CustomLoadingOverlay visible)
  progress,       \* CustomLoadingOverlay of Upload: progress
  stage,          \* CustomLoadingOverlay of Upload: stage
  requests,       \* POSTs of Upload.analyze in flight
  activeTab,      \* Analysis: activeTab
  analysisData,   \* Analysis: analysisData
  loading,        \* Analysis: loading
  error,          \* Analysis: error
  redirectTimer,  \* Analysis: the 300 ms redirect timer is pending
  fetches,        \* Analysis: GETs of fetchAnalysisData in flight
  currentMessage, \* Analysis: currentMessage (the chat input box)
  chatMessages,   \* Analysis: chatMessages
  replyTimers,    \* Analysis: pending 1 s timers of handleSendMessage, oldest first
  currentPage,    \* plain app: App's currentPage
  uploadMethod,   \* DocumentUpload: uploadMethod
  file,           \* DocumentUpload: file
  text,           \* DocumentUpload: text
  isAnalyzing,    \* DocumentUpload: isAnalyzing
  timers          \* DocumentUpload: pending 3 s timers of handleAnalyze

vars == <<app, route, storage, analysis, alertMsg, upActiveTab, hasFile, fileObj,
          pasteText, upLoading, progress, stage, requests, activeTab, analysisData, loading, error,
          redirectTimer, fetches, currentMessage, chatMessages, replyTimers,
          currentPage, uploadMethod, file, text, isAnalyzing, timers>>

overlayVars == <<progress, stage>>
uploadVars == <<upActiveTab, hasFile, fileObj, pasteText, upLoading, overlayVars>>
chatVars == <<currentMessage, chatMessages, replyTimers>>
analysisVars == <<activeTab, analysisData, loading, error, redirectTimer, fetches, chatVars>>
routerVars == <<route, storage, analysis, uploadVars, requests, analysisVars>>
plainVars == <<currentPage, uploadMethod, file, text, isAnalyzing, timers>>

Routes == {"/", "/upload", "/analysis"}

\* ------------------------------------------------------- component mounting
\* useState initial values of Upload and of the CustomLoadingOverlay it renders.
UploadInitial ==
  [activeTab |-> "upload", hasFile |-> FALSE, fileObj |-> Null,
   pasteText |-> <<>>, loading |-> FALSE,
   progress |-> initial, stage |-> "Analyzing Your Document"]

\* The mount effect of Upload without its setActiveTab('paste').
UploadMountedKeepsTab(existing) ==
  LET data == JsonParse(existing) IN
  IF existing # NoEntry /\ existing # "" /\ data.ok /\ data.pasteText # <<>>
  THEN [UploadInitial EXCEPT !.pasteText = data.pasteText]
  ELSE UploadInitial

\* Upload after its mount effect has restored from local storage.
UploadMounted(existing) ==
  LET data == JsonParse(existing) IN
  IF existing # NoEntry /\ existing # "" /\ data.ok /\ data.pasteText # <<>>
  THEN [UploadInitial EXCEPT !.activeTab = "paste", !.pasteText = data.pasteText]
  ELSE UploadInitial

SetUpload(u) ==
  /\ upActiveTab' = u.activeTab
  /\ hasFile' = u.hasFile
  /\ fileObj' = u.fileObj
  /\ pasteText' = u.pasteText
  /\ upLoading' = u.loading
  /\ progress' = u.progress
  /\ stage' = u.stage

\* A re-render of Upload with another `visible` that starts the overlay anew.
OverlayRerenderedFromInitial ==
  [progress |-> initial, stage |-> "Analyzing Your Document"]

\* The overlay after a re-render of Upload with another `visible`: useState
\* takes its argument on the first render only, progress and stage are kept.
OverlayRerendered == [progress |-> progress, stage |-> stage]

SetOverlay(o) ==
  /\ progress' = o.progress
  /\ stage' = o.stage

\* Calls in flight are bags: two identical calls in flight are two calls.
One(call) == SetToBag({call})

\* fetchAnalysisData up to its await: one more GET in flight.
StartFetch(fts, origin) == fts (+) One([origin |-> origin])

\* A chat entry; the content is kept as its pieces.
Message(type, content) == [type |-> type, content |-> content]

\* The entry chatMessages starts with.
Greeting ==
  Message("assistant", <<"Hello! I'm your legal assistant. Ask me anything about this contract, and I'll help break it down for you.">>)

\* useState initial values of Analysis; no fetch in flight, no timer pending.
AnalysisInitial ==
  [activeTab |-> "summary", analysisData |-> Null, loading |-> TRUE,
   error |-> NoError, redirectTimer |-> FALSE, fetches |-> EmptyBag,
   currentMessage |-> <<>>, chatMessages |-> <<Greeting>>, replyTimers |-> <<>>]

\* The mount effect of Analysis with `data === null` for `!data`.
AnalysisMountedNullOnly(data) ==
  IF data = NoEntry
  THEN [AnalysisInitial EXCEPT !.redirectTimer = TRUE]
  ELSE [AnalysisInitial EXCEPT !.loading = TRUE,
                               !.fetches = StartFetch(EmptyBag, "mount")]

\* Analysis after its mount effect: `!data` (no entry, or the empty string)
\* schedules the redirect, any other entry starts fetchAnalysisData.
AnalysisMounted(data) ==
  IF data = NoEntry \/ data = ""
  THEN [AnalysisInitial EXCEPT !.redirectTimer = TRUE]
  ELSE [AnalysisInitial EXCEPT !.loading = TRUE,
                               !.fetches = StartFetch(EmptyBag, "mount")]

SetAnalysisPage(a) ==
  /\ activeTab' = a.activeTab
  /\ analysisData' = a.analysisData
  /\ loading' = a.loading
  /\ error' = a.error
  /\ redirectTimer' = a.redirectTimer
  /\ fetches' = a.fetches
  /\ currentMessage' = a.currentMessage
  /\ chatMessages' = a.chatMessages
  /\ replyTimers' = a.replyTimers

\* A POST whose Upload page has unmounted still settles, but its setLoading
\* reaches no mounted component.
Orphaned(reqs) ==
  LET Count(r) == IF r \in DOMAIN reqs THEN reqs[r] ELSE 0 IN
  [d \in {[r EXCEPT !.live = FALSE] : r \in DOMAIN reqs} |->
     Count(d) + Count([d EXCEPT !.live = TRUE])]

\* An unmount of Analysis that leaves its redirect timer set.
AnalysisUnmountedKeepsTimer == [AnalysisInitial EXCEPT !.redirectTimer = redirectTimer]

\* Analysis once unmounted: the cleanup of its mount effect has cleared the
\* redirect timer, and the state of the component is gone.
AnalysisUnmounted == AnalysisInitial

\* The router renders the element of path `to`.  `reqs` are the POSTs in flight
\* once the calling handler has run.  Navigating to the current path keeps the
\* mounted page; otherwise the old page unmounts (an unmounted Analysis clears
\* its redirect timer, and the settling of its fetches and the callbacks of its
\* reply timers reach no component) and the new page mounts and runs its mount
\* effect.
Navigate(to, reqs) ==
  /\ route' = to
  /\ IF to = route
     THEN /\ requests' = reqs
          /\ UNCHANGED <<uploadVars, analysisVars>>
     ELSE /\ requests' = IF route = "/upload" THEN Orphaned(reqs) ELSE reqs
          /\ SetUpload(IF to = "/upload" THEN UploadMounted(storage) ELSE UploadInitial)
          /\ SetAnalysisPage(IF to = "/analysis" THEN AnalysisMounted(storage)
                                                 ELSE AnalysisUnmounted)

\* --------------------------------------------------------------------- Init
\* useState initial values of DocumentUpload.
DocumentUploadInitial ==
  [uploadMethod |-> "upload", file |-> Null, text |-> <<>>, isAnalyzing |-> FALSE]

SetDocumentUpload(d) ==
  /\ uploadMethod' = d.uploadMethod
  /\ file' = d.file
  /\ text' = d.text
  /\ isAnalyzing' = d.isAnalyzing

\* The router app after createRoot(...).render at path `path`.
InitRouter(path, stored) ==
  /\ route = path
  /\ storage = stored
  /\ analysis = Null
  /\ requests = EmptyBag
  /\ LET u == IF path = "/upload" THEN UploadMounted(stored) ELSE UploadInitial IN
       /\ upActiveTab = u.activeTab
       /\ hasFile = u.hasFile
       /\ fileObj = u.fileObj
       /\ pasteText = u.pasteText
       /\ upLoading = u.loading
       /\ progress = u.progress
       /\ stage = u.stage
  /\ LET a == IF path = "/analysis" THEN AnalysisMounted(stored) ELSE AnalysisInitial IN
       /\ activeTab = a.activeTab
       /\ analysisData = a.analysisData
       /\ loading = a.loading
       /\ error = a.error
       /\ redirectTimer = a.redirectTimer
       /\ fetches = a.fetches
       /\ currentMessage = a.currentMessage
       /\ chatMessages = a.chatMessages
       /\ replyTimers = a.replyTimers

\* The plain app after its first render: App shows the home page.
InitPlain ==
  /\ currentPage = "home"
  /\ uploadMethod = DocumentUploadInitial.uploadMethod
  /\ file = DocumentUploadInitial.file
  /\ text = DocumentUploadInitial.text
  /\ isAnalyzing = DocumentUploadInitial.isAnalyzing
  /\ timers = EmptyBag

\* The two builds of the router app: with the Upload page that posts to the
\* backend, and with its demo variant.
RouterApps == {"router", "demo"}

\* One of the prototypes is loaded; the state of the others stays put.
Init ==
  /\ alertMsg = NoAlert
  /\ app \in RouterApps \cup {"plain"}
  /\ InitPlain
  /\ IF app \in RouterApps
     THEN \E path \in Routes : \E stored \in StorageValues : InitRouter(path, stored)
     ELSE InitRouter("/", NoEntry)

\* ------------------------------------------------------------- Upload page
OnUpload == app \in RouterApps /\ route = "/upload"

\* A picker that was cancelled hands no file to onFileSelected.
NoFile == [none |-> TRUE]

\* onFileSelected with the size limit made exclusive (>= for >).
onFileSelectedExclusiveLimit(selected, hf, fo) ==
  IF selected = NoFile THEN [hasFile |-> hf, fileObj |-> fo, alert |-> NoAlert]
  ELSE IF selected.type \notin allowedTypes
    THEN [hasFile |-> hf, fileObj |-> fo,
          alert |-> "Please upload a PDF, DOC, DOCX, or TXT file."]
  ELSE IF selected.size >= MaxFileSize
    THEN [hasFile |-> hf, fileObj |-> fo, alert |-> "File size must be less than 10MB."]
  ELSE [hasFile |-> TRUE, fileObj |-> selected, alert |-> NoAlert]

\* onFileSelected(file) on the selection state: the state and the alert it leaves.
onFileSelected(selected, hf, fo) ==
  IF selected = NoFile THEN [hasFile |-> hf, fileObj |-> fo, alert |-> NoAlert]
  ELSE IF selected.type \notin allowedTypes
    THEN [hasFile |-> hf, fileObj |-> fo,
          alert |-> "Please upload a PDF, DOC, DOCX, or TXT file."]
  ELSE IF selected.size > MaxFileSize
    THEN [hasFile |-> hf, fileObj |-> fo, alert |-> "File size must be less than 10MB."]
  ELSE [hasFile |-> TRUE, fileObj |-> selected, alert |-> NoAlert]

\* The file input's onChange; the input is rendered on the upload tab only.
FileSelected(selected) ==
  /\ OnUpload
  /\ upActiveTab = "upload"
  /\ LET after == onFileSelected(selected, hasFile, fileObj) IN
       /\ hasFile' = after.hasFile
       /\ fileObj' = after.fileObj
       /\ alertMsg' = after.alert
  /\ UNCHANGED <<app, plainVars, overlayVars, route, storage, analysis, upActiveTab, pasteText, upLoading,
                 requests, analysisVars>>

\* A file dropped on the upload area of the Upload page.  The area has an
\* onClick and no onDrop or onDragOver: no handler of the page runs.
DropOnUploadArea(dropped) ==
  /\ OnUpload
  /\ upActiveTab = "upload"
  /\ alertMsg' = NoAlert
  /\ UNCHANGED <<app, plainVars, route, storage, analysis, uploadVars, requests, analysisVars>>

\* The Change File button: setHasFile(false), then the picker opens.
ChangeFile ==
  /\ OnUpload
  /\ upActiveTab = "upload"
  /\ hasFile
  /\ hasFile' = FALSE
  /\ alertMsg' = NoAlert
  /\ UNCHANGED <<app, plainVars, overlayVars, route, storage, analysis, upActiveTab, fileObj, pasteText,
                 upLoading, requests, analysisVars>>

\* The two tab buttons of the Upload page.
SetActiveTab(tab) ==
  /\ OnUpload
  /\ upActiveTab' = tab
  /\ alertMsg' = NoAlert
  /\ UNCHANGED <<app, plainVars, overlayVars, route, storage, analysis, hasFile, fileObj, pasteText,
                 upLoading, requests, analysisVars>>

\* The textarea's onChange; the textarea is rendered on the paste tab only.
SetPasteText(value) ==
  /\ OnUpload
  /\ upActiveTab = "paste"
  /\ pasteText' = value
  /\ alertMsg' = NoAlert
  /\ UNCHANGED <<app, plainVars, overlayVars, route, storage, analysis, upActiveTab, hasFile, fileObj,
                 upLoading, requests, analysisVars>>

\* The FormData analyze builds.  With hasFile true the condition goes on to read
\* `file`, a name that analyze does not have in scope (the state is fileObj):
\* the read throws a ReferenceError inside the try block.
FormData(hf, fo, pasted) ==
  IF hf THEN [threw |-> TRUE, field |-> "none", value |-> Null]
  ELSE IF Trim(pasted) # <<>> THEN [threw |-> FALSE, field |-> "text", value |-> pasted]
  ELSE [threw |-> FALSE, field |-> "none", value |-> Null]

\* The empty-input check without the trim().
EmptyInputUntrimmed(hf, pasted) == ~hf /\ pasted = <<>>

\* The empty-input check at the head of analyze.
EmptyInput(hf, pasted) == ~hf /\ Trim(pasted) = <<>>

\* A click on Analyze (the button is never disabled): analyze up to its await.
Analyze ==
  /\ OnUpload
  /\ app = "router"
  /\ IF EmptyInput(hasFile, pasteText)
     THEN /\ alertMsg' = "Please upload a document or paste text to analyze."
          /\ UNCHANGED <<upLoading, overlayVars, requests>>
     ELSE LET form == FormData(hasFile, fileObj, pasteText) IN
          IF form.threw
          THEN \* setLoading(true), catch: alert(err.message), finally: setLoading(false)
               /\ alertMsg' = "file is not defined"
               /\ upLoading' = FALSE
               /\ UNCHANGED <<overlayVars, requests>>
          ELSE /\ BagCardinality(requests) < MaxRequests
               /\ alertMsg' = NoAlert
               /\ upLoading' = TRUE
               /\ SetOverlay(OverlayRerendered)
               /\ requests' = requests (+) One([body |-> form, live |-> TRUE])
  /\ UNCHANGED <<app, plainVars, route, storage, analysis, upActiveTab, hasFile, fileObj,
                 pasteText, analysisVars>>

\* What a fetch hands back: it rejects (network error), or resolves with ok set
\* or not and a body that parses to `body` (Null: response.json() rejects).
ResponsesWith(bodies) ==
  {[rejected |-> TRUE, ok |-> FALSE, body |-> Null]} \cup
  {[rejected |-> FALSE, ok |-> o, body |-> b] : o \in BOOLEAN, b \in bodies \cup {Null}}

\* analyzeTry without the `if (!response.ok) throw`.
analyzeTryNoStatusCheck(response) ==
  IF response.rejected THEN [thrown |-> TRUE, message |-> "Failed to fetch", result |-> Null]
  ELSE IF response.body = Null
    THEN [thrown |-> TRUE, message |-> "Unexpected end of JSON input", result |-> Null]
  ELSE [thrown |-> FALSE, message |-> NoAlert, result |-> response.body]

\* The try block of analyze after its fetch: what it throws, or the result.
analyzeTry(response) ==
  IF response.rejected THEN [thrown |-> TRUE, message |-> "Failed to fetch", result |-> Null]
  ELSE IF ~response.ok
    THEN [thrown |-> TRUE, message |-> "Server error: 500", result |-> Null]
  ELSE IF response.body = Null
    THEN [thrown |-> TRUE, message |-> "Unexpected end of JSON input", result |-> Null]
  ELSE [thrown |-> FALSE, message |-> NoAlert, result |-> response.body]

\* The fetch of analyze settles and analyze runs to its end: setAnalysis(result)
\* and navigate('/analysis'), or the alert of catch; finally setLoading(false),
\* which reaches the Upload page only while that page is still mounted.
PostSettles(r, response) ==
  LET out == analyzeTry(response) IN
  /\ app = "router"
  /\ BagIn(r, requests)
  /\ IF out.thrown
     THEN /\ alertMsg' = out.message
          /\ requests' = requests (-) One(r)
          /\ upLoading' = IF r.live THEN FALSE ELSE upLoading
          /\ SetOverlay(OverlayRerendered)
          /\ UNCHANGED <<route, analysis, upActiveTab, hasFile, fileObj, pasteText,
                         analysisVars>>
     ELSE /\ alertMsg' = NoAlert
          /\ analysis' = out.result
          /\ Navigate("/analysis", requests (-) One(r))
  /\ UNCHANGED <<app, plainVars, storage>>

\* What one tick may add to the progress, Math.random() * 8 (in [0, 8)): the
\* least and a large advance.
Advances == {0, MaxAdvance - 1}

Min(a, b) == IF a < b THEN a ELSE b

\* tick without the Math.min(..., 95).
tickUncapped(prev, advance) == prev + advance

\* The updater of tick: Math.min(prev + Math.random() * 8, 95).
tick(prev, advance) == Min(prev + advance, ProgressCap)

\* A tick of the overlay of Upload.  The effect on [visible] runs tick and
\* re-arms it every 300 ms while visible is true and clears the timer when
\* visible turns false; the effect on [progress] then sets the stage.
OverlayTick(advance) ==
  /\ OnUpload
  /\ upLoading
  /\ progress' = tick(progress, advance)
  /\ stage' = IF progress' > FinalizingAbove THEN "Finalizing analysis report..." ELSE stage
  /\ alertMsg' = NoAlert
  /\ UNCHANGED <<app, plainVars, route, storage, analysis, upActiveTab, hasFile, fileObj,
                 pasteText, upLoading, requests, analysisVars>>

\* analyze of the demo variant, which awaits nothing: the empty-input check,
\* then setLoading(true), setAnalysis(the demo payload), navigate('/analysis')
\* and, in finally, setLoading(false).
AnalyzeDemo ==
  /\ OnUpload
  /\ app = "demo"
  /\ IF EmptyInput(hasFile, pasteText)
     THEN /\ alertMsg' = "Please upload a document or paste text to analyze."
          /\ UNCHANGED <<route, analysis, uploadVars, requests, analysisVars>>
     ELSE /\ alertMsg' = NoAlert
          /\ analysis' = DemoPayload
          /\ Navigate("/analysis", requests)
  /\ UNCHANGED <<app, plainVars, storage>>

\* ----------------------------------------------------------- Analysis page
OnAnalysis == app \in RouterApps /\ route = "/analysis"

\* The render guards of Analysis, in their order.
AnalysisView ==
  IF loading THEN "loading"
  ELSE IF error # NoError THEN "error"
  ELSE IF analysisData = Null THEN "blank"
  ELSE "results"

\* The 300 ms timer of the mount effect fires: navigate('/upload').
RedirectFires ==
  /\ app \in RouterApps
  /\ redirectTimer
  /\ alertMsg' = NoAlert
  /\ Navigate("/upload", requests)
  /\ UNCHANGED <<app, plainVars, storage, analysis>>

\* A Retry button that is offered whenever an error is set, loading or not.
RetryWhileLoading ==
  /\ OnAnalysis
  /\ error # NoError
  /\ BagCardinality(fetches) < MaxFetches
  /\ loading' = TRUE
  /\ fetches' = StartFetch(fetches, "retry")
  /\ alertMsg' = NoAlert
  /\ UNCHANGED <<app, plainVars, route, storage, analysis, uploadVars, requests, activeTab,
                 analysisData, error, redirectTimer, chatVars>>

\* The Retry button of the error panel: fetchAnalysisData up to its await.
Retry ==
  /\ OnAnalysis
  /\ AnalysisView = "error"
  /\ BagCardinality(fetches) < MaxFetches
  /\ loading' = TRUE
  /\ fetches' = StartFetch(fetches, "retry")
  /\ alertMsg' = NoAlert
  /\ UNCHANGED <<app, plainVars, route, storage, analysis, uploadVars, requests, activeTab,
                 analysisData, error, redirectTimer, chatVars>>

\* The try block of fetchAnalysisData after its fetch.
fetchAnalysisTry(response) ==
  IF response.rejected THEN [thrown |-> TRUE, message |-> "Failed to fetch", data |-> Null]
  ELSE IF ~response.ok
    THEN [thrown |-> TRUE, message |-> "Failed to fetch analysis data", data |-> Null]
  ELSE IF response.body = Null
    THEN [thrown |-> TRUE, message |-> "Unexpected end of JSON input", data |-> Null]
  ELSE [thrown |-> FALSE, message |-> NoError, data |-> response.body]

\* The fetch of fetchAnalysisData settles and the function runs to its end:
\* setAnalysisData(data), or setError(err.message); finally setLoading(false).
FetchSettles(f, response) ==
  LET out == fetchAnalysisTry(response) IN
  /\ OnAnalysis
  /\ BagIn(f, fetches)
  /\ fetches' = fetches (-) One(f)
  /\ IF out.thrown
     THEN error' = out.message /\ UNCHANGED analysisData
     ELSE analysisData' = out.data /\ UNCHANGED error
  /\ loading' = FALSE
  /\ alertMsg' = NoAlert
  /\ UNCHANGED <<app, plainVars, route, storage, analysis, uploadVars, requests,
                 activeTab, redirectTimer, chatVars>>

Tabs == {"summary", "risk", "terms", "qa"}

\* style={{ display: activeTab === tab ? 'block' : 'none' }} of a tab panel.
PanelDisplay(tab) == IF activeTab = tab THEN "block" ELSE "none"

\* A tab button that also empties the input box.
handleTabClickClearsInput(tabName) ==
  /\ OnAnalysis
  /\ AnalysisView = "results"
  /\ activeTab' = tabName
  /\ currentMessage' = <<>>
  /\ alertMsg' = NoAlert
  /\ UNCHANGED <<app, plainVars, route, storage, analysis, uploadVars, requests, analysisData,
                 loading, error, redirectTimer, fetches, chatMessages, replyTimers>>

\* The tab buttons of the results view.
handleTabClick(tabName) ==
  /\ OnAnalysis
  /\ AnalysisView = "results"
  /\ activeTab' = tabName
  /\ alertMsg' = NoAlert
  /\ UNCHANGED <<app, plainVars, route, storage, analysis, uploadVars, requests, analysisData,
                 loading, error, redirectTimer, fetches, chatVars>>

\* bucket?.length: undefined for an absent bucket.
OptionalLength(bucket) ==
  IF bucket.present THEN [defined |-> TRUE, value |-> Len(bucket.items)]
  ELSE [defined |-> FALSE, value |-> 0]

\* length || 0
OrZero(length) == IF length.defined /\ length.value # 0 THEN length.value ELSE 0

\* length > 0: false for undefined.
Positive(length) == length.defined /\ length.value > 0

\* !length: true for undefined and for 0.
Not(length) == ~length.defined \/ length.value = 0

\* The Risks Found stat with the Low_Risk term left out.
RisksFoundWithoutLow(data) ==
  OrZero(OptionalLength(data.High_Risk)) + OrZero(OptionalLength(data.Medium_Risk))

\* The Risks Found stat of the summary tab.
RisksFound(data) ==
  OrZero(OptionalLength(data.High_Risk)) + OrZero(OptionalLength(data.Medium_Risk))
    + OrZero(OptionalLength(data.Low_Risk))

\* The guard of a bucket's section in risk-details.
RiskSectionRendered(bucket) == Positive(OptionalLength(bucket))

\* The guard of the no-risks message.
NoRisksRendered(data) ==
  /\ Not(OptionalLength(data.High_Risk))
  /\ Not(OptionalLength(data.Medium_Risk))
  /\ Not(OptionalLength(data.Low_Risk))

\* ------------------------------------------------- Analysis page: Q&A tab
\* The Suggested_Questions of the payloads.
SuggestedQuestions == {<<"q">>}

\* The Q&A panel is displayed: its input box and buttons can be used.
OnQATab == OnAnalysis /\ AnalysisView = "results" /\ activeTab = "qa"

\* The user messages in the chat.
UserMessages == {i \in DOMAIN chatMessages : chatMessages[i].type = "user"}

\* The input box's onChange.
setCurrentMessage(value) ==
  /\ OnQATab
  /\ currentMessage' = value
  /\ alertMsg' = NoAlert
  /\ UNCHANGED <<app, plainVars, route, storage, analysis, uploadVars, requests, activeTab,
                 analysisData, loading, error, redirectTimer, fetches, chatMessages,
                 replyTimers>>

\* The placeholder reply to messageText.
Reply(messageText) ==
  <<"I understand you're asking about: \"">> \o messageText
    \o <<"\". This would typically be answered by analyzing the specific clauses in your contract. Please implement the AI response API integration here.">>

\* handleSendMessage that leaves the input box as it is.
handleSendMessageKeepsInput(messageText) ==
  IF Trim(messageText) = <<>>
  THEN UNCHANGED chatVars
  ELSE /\ Cardinality(UserMessages) < MaxSent
       /\ chatMessages' = Append(chatMessages, Message("user", messageText))
       /\ UNCHANGED currentMessage
       /\ replyTimers' = Append(replyTimers, messageText)

\* handleSendMessage with `!messageText` for `!messageText.trim()`.
handleSendMessageUntrimmed(messageText) ==
  IF messageText = <<>>
  THEN UNCHANGED chatVars
  ELSE /\ Cardinality(UserMessages) < MaxSent
       /\ chatMessages' = Append(chatMessages, Message("user", messageText))
       /\ currentMessage' = <<>>
       /\ replyTimers' = Append(replyTimers, messageText)

\* handleSendMessage(messageText): a blank message returns at once; any other is
\* appended as a user message, the input box is cleared and the 1 s timer of
\* the reply is set.
handleSendMessage(messageText) ==
  IF Trim(messageText) = <<>>
  THEN UNCHANGED chatVars
  ELSE /\ Cardinality(UserMessages) < MaxSent
       /\ chatMessages' = Append(chatMessages, Message("user", messageText))
       /\ currentMessage' = <<>>
       /\ replyTimers' = Append(replyTimers, messageText)

\* handleQuestionClick with its commented-out handleSendMessage(question).
handleQuestionClickSends(question) ==
  /\ OnQATab
  /\ handleSendMessage(question)
  /\ alertMsg' = NoAlert
  /\ UNCHANGED <<app, plainVars, route, storage, analysis, uploadVars, requests, activeTab,
                 analysisData, loading, error, redirectTimer, fetches>>

\* handleQuestionClick(question): the question goes into the input box.
handleQuestionClick(question) ==
  /\ OnQATab
  /\ currentMessage' = question
  /\ alertMsg' = NoAlert
  /\ UNCHANGED <<app, plainVars, route, storage, analysis, uploadVars, requests, activeTab,
                 analysisData, loading, error, redirectTimer, fetches, chatMessages,
                 replyTimers>>

\* disabled={!currentMessage.trim()} of the send button.
SendDisabled == Trim(currentMessage) = <<>>

\* The send button: handleSendMessage() with its default, currentMessage.
SendClick ==
  /\ OnQATab
  /\ ~SendDisabled
  /\ handleSendMessage(currentMessage)
  /\ alertMsg' = NoAlert
  /\ UNCHANGED <<app, plainVars, route, storage, analysis, uploadVars, requests, activeTab,
                 analysisData, loading, error, redirectTimer, fetches>>

\* handleKeyPress: Enter in the input box sends, any other key does nothing.
handleKeyPress(key) ==
  /\ OnQATab
  /\ IF key = "Enter" THEN handleSendMessage(currentMessage) ELSE UNCHANGED chatVars
  /\ alertMsg' = NoAlert
  /\ UNCHANGED <<app, plainVars, route, storage, analysis, uploadVars, requests, activeTab,
                 analysisData, loading, error, redirectTimer, fetches>>

\* The newest pending timer taken for the one that is due.
DueTimerNewest(pending) == Len(pending)

\* The pending timer that is due: all are set for 1000 ms, so they fire in the
\* order they were set, the oldest first.
DueTimer(pending) == 1

\* The sequence without its entry at `index`.
RemoveAt(entries, index) ==
  SubSeq(entries, 1, index - 1) \o SubSeq(entries, index + 1, Len(entries))

\* A timer callback that writes its reply over the last entry of the chat.
ReplyTimerFiresOverLast ==
  LET due == DueTimer(replyTimers) IN
  /\ OnAnalysis
  /\ replyTimers # <<>>
  /\ chatMessages' = [chatMessages EXCEPT ![Len(chatMessages)] =
                         Message("assistant", Reply(replyTimers[due]))]
  /\ replyTimers' = RemoveAt(replyTimers, due)
  /\ alertMsg' = NoAlert
  /\ UNCHANGED <<app, plainVars, route, storage, analysis, uploadVars, requests, activeTab,
                 analysisData, loading, error, redirectTimer, fetches, currentMessage>>

\* The reply timer that is due fires: the reply it closed over is appended.
ReplyTimerFires ==
  LET due == DueTimer(replyTimers) IN
  /\ OnAnalysis
  /\ replyTimers # <<>>
  /\ chatMessages' = Append(chatMessages, Message("assistant", Reply(replyTimers[due])))
  /\ replyTimers' = RemoveAt(replyTimers, due)
  /\ alertMsg' = NoAlert
  /\ UNCHANGED <<app, plainVars, route, storage, analysis, uploadVars, requests, activeTab,
                 analysisData, loading, error, redirectTimer, fetches, currentMessage>>

\* getRiskLevel with the High threshold made strict (> for >=).
getRiskLevelStrict(score) ==
  IF score > 8 THEN [level |-> "High Risk", class |-> "high-risk"]
  ELSE IF score >= 5 THEN [level |-> "Medium Risk", class |-> "medium-risk"]
  ELSE [level |-> "Low Risk", class |-> "low-risk"]

\* getRiskLevel(score)
getRiskLevel(score) ==
  IF score >= 8 THEN [level |-> "High Risk", class |-> "high-risk"]
  ELSE IF score >= 5 THEN [level |-> "Medium Risk", class |-> "medium-risk"]
  ELSE [level |-> "Low Risk", class |-> "low-risk"]

\* const riskInfo = getRiskLevel(...Risk_Score), computed by the results render.
riskInfo == getRiskLevel(analysisData.Risk_Score)

\* ------------------------------------------------------------------- links
\* <Link to="/">: Back to Home on Upload, New Analysis on the results view.
LinkHome ==
  /\ \/ OnUpload
     \/ OnAnalysis /\ AnalysisView = "results"
  /\ alertMsg' = NoAlert
  /\ Navigate("/", requests)
  /\ UNCHANGED <<app, plainVars, storage, analysis>>

\* <Link to="/upload">: the two buttons of Home, Analyze New Document on results.
LinkUpload ==
  /\ \/ app \in RouterApps /\ route = "/"
     \/ OnAnalysis /\ AnalysisView = "results"
  /\ alertMsg' = NoAlert
  /\ Navigate("/upload", requests)
  /\ UNCHANGED <<app, plainVars, storage, analysis>>

\* The Back button of the browser on an Analysis page the app navigated to
\* (the context is set by the analyze that navigated): the router renders the
\* page that was shown when analyze called navigate, which is Upload or, when
\* the POST settled after Back to Home, the home page.
BackFromAnalysis(to) ==
  /\ OnAnalysis
  /\ analysis # Null
  /\ to = "/upload" \/ (to = "/" /\ app = "router")
  /\ alertMsg' = NoAlert
  /\ Navigate(to, requests)
  /\ UNCHANGED <<app, plainVars, storage, analysis>>

\* ---------------------------------------------- plain app: DocumentUpload
OnDocumentUpload == app = "plain" /\ currentPage = "upload"

\* navigateToUpload (the buttons of Hero and CTA): DocumentUpload mounts.
navigateToUpload ==
  /\ app = "plain"
  /\ currentPage = "home"
  /\ currentPage' = "upload"
  /\ SetDocumentUpload(DocumentUploadInitial)
  /\ alertMsg' = NoAlert
  /\ UNCHANGED <<app, routerVars, timers>>

\* A Back to Home that clears the timers of the DocumentUpload it unmounts.
navigateToHomeClearsTimers ==
  /\ OnDocumentUpload
  /\ currentPage' = "home"
  /\ SetDocumentUpload(DocumentUploadInitial)
  /\ timers' = EmptyBag
  /\ alertMsg' = NoAlert
  /\ UNCHANGED <<app, routerVars>>

\* navigateToHome (Back to Home): DocumentUpload unmounts, its timers stay set.
navigateToHome ==
  /\ OnDocumentUpload
  /\ currentPage' = "home"
  /\ SetDocumentUpload(DocumentUploadInitial)
  /\ timers' = Orphaned(timers)
  /\ alertMsg' = NoAlert
  /\ UNCHANGED <<app, routerVars>>

\* The two tab buttons of DocumentUpload.
setUploadMethod(method) ==
  /\ OnDocumentUpload
  /\ uploadMethod' = method
  /\ alertMsg' = NoAlert
  /\ UNCHANGED <<app, routerVars, currentPage, file, text, isAnalyzing, timers>>

\* handleFileChange: setFile(e.target.files[0]), whatever the file is.
handleFileChange(selectedFile) ==
  /\ OnDocumentUpload
  /\ uploadMethod = "upload"
  /\ file' = IF selectedFile = NoFile THEN Null ELSE selectedFile
  /\ alertMsg' = NoAlert
  /\ UNCHANGED <<app, routerVars, currentPage, uploadMethod, text, isAnalyzing, timers>>

\* handleDrop: setFile(e.dataTransfer.files[0]), whatever the file is.
handleDrop(droppedFile) ==
  /\ OnDocumentUpload
  /\ uploadMethod = "upload"
  /\ file' = IF droppedFile = NoFile THEN Null ELSE droppedFile
  /\ alertMsg' = NoAlert
  /\ UNCHANGED <<app, routerVars, currentPage, uploadMethod, text, isAnalyzing, timers>>

\* The textarea's onChange of DocumentUpload.
setText(value) ==
  /\ OnDocumentUpload
  /\ uploadMethod = "paste"
  /\ text' = value
  /\ alertMsg' = NoAlert
  /\ UNCHANGED <<app, routerVars, currentPage, uploadMethod, file, isAnalyzing, timers>>

\* The disabled attribute of the analyze button without its isAnalyzing term.
AnalyzeDisabledWhenEmpty == file = Null /\ text = <<>>

\* disabled={isAnalyzing || (!file && !text)} of the analyze button.
AnalyzeDisabled == isAnalyzing \/ (file = Null /\ text = <<>>)

\* handleAnalyze: setIsAnalyzing(true) and a 3 s timer.
handleAnalyze ==
  /\ OnDocumentUpload
  /\ ~AnalyzeDisabled
  /\ BagCardinality(timers) < MaxTimers
  /\ isAnalyzing' = TRUE
  /\ timers' = timers (+) One([live |-> TRUE])
  /\ alertMsg' = NoAlert
  /\ UNCHANGED <<app, routerVars, currentPage, uploadMethod, file, text>>

\* The timer of handleAnalyze fires: setIsAnalyzing(false) and the alert.
AnalyzeTimerFires(timer) ==
  /\ app = "plain"
  /\ BagIn(timer, timers)
  /\ timers' = timers (-) One(timer)
  /\ isAnalyzing' = IF timer.live THEN FALSE ELSE isAnalyzing
  /\ alertMsg' = "Document analysis complete! (This is a demo)"
  /\ UNCHANGED <<app, routerVars, currentPage, uploadMethod, file, text>>

\* --------------------------------------------------------------------- Next
Next ==
  \/ \E selected \in Files \cup {NoFile} : FileSelected(selected)
  \/ \E dropped \in Files : DropOnUploadArea(dropped)
  \/ ChangeFile
  \/ \E tab \in {"upload", "paste"} : SetActiveTab(tab)
  \/ \E value \in Texts : SetPasteText(value)
  \/ Analyze
  \/ AnalyzeDemo
  \/ \E r \in BagToSet(requests) : \E response \in ResponsesWith(PostPayloads) :
        PostSettles(r, response)
  \/ RedirectFires
  \/ Retry
  \/ \E f \in BagToSet(fetches) : \E response \in ResponsesWith(Payloads) :
        FetchSettles(f, response)
  \/ \E tabName \in Tabs : handleTabClick(tabName)
  \/ LinkHome
  \/ LinkUpload
  \/ \E to \in {"/", "/upload"} : BackFromAnalysis(to)
  \/ navigateToUpload
  \/ navigateToHome
  \/ \E method \in {"upload", "paste"} : setUploadMethod(method)
  \/ \E selectedFile \in Files \cup {NoFile} : handleFileChange(selectedFile)
  \/ \E droppedFile \in Files \cup {NoFile} : handleDrop(droppedFile)
  \/ \E value \in Texts : setText(value)
  \/ handleAnalyze
  \/ \E timer \in BagToSet(timers) : AnalyzeTimerFires(timer)

Spec == Init /\ [][Next]_vars

\* ------------------------------------------------------- one Analysis page
\* The router app loaded at /analysis.
InitAnalysis ==
  /\ alertMsg = NoAlert
  /\ app = "router"
  /\ InitPlain
  /\ \E stored \in StorageValues : InitRouter("/analysis", stored)

\* All that happens on the page, the Q&A handlers included, and the links that
\* leave it.
NextAnalysis ==
  \/ RedirectFires
  \/ Retry
  \/ \E f \in BagToSet(fetches) : \E response \in ResponsesWith({DemoPayload}) :
        FetchSettles(f, response)
  \/ \E tabName \in Tabs : handleTabClick(tabName)
  \/ \E value \in Texts : setCurrentMessage(value)
  \/ \E question \in SuggestedQuestions : handleQuestionClick(question)
  \/ SendClick
  \/ \E key \in {"Enter", "a"} : handleKeyPress(key)
  \/ ReplyTimerFires
  \/ LinkHome
  \/ LinkUpload

SpecAnalysis == InitAnalysis /\ [][NextAnalysis]_vars

\* The timers of the browser fire.
SpecAnalysisFair == SpecAnalysis /\ WF_vars(ReplyTimerFires)

\* --------------------------------------------- one Upload page's overlay
\* The router app loaded at /upload.
InitOverlay ==
  /\ alertMsg = NoAlert
  /\ app = "router"
  /\ InitPlain
  /\ \E stored \in StorageValues : InitRouter("/upload", stored)

\* Pasting text, analysing, the settling of the requests and the ticks of the
\* overlay, and the links that leave the page and come back to it.
NextOverlay ==
  \/ \E tab \in {"upload", "paste"} : SetActiveTab(tab)
  \/ \E value \in Texts : SetPasteText(value)
  \/ Analyze
  \/ \E r \in BagToSet(requests) : \E response \in ResponsesWith(PostPayloads) :
        PostSettles(r, response)
  \/ \E advance \in Advances : OverlayTick(advance)
  \/ LinkHome
  \/ LinkUpload

SpecOverlay == InitOverlay /\ [][NextOverlay]_vars

\* =================================================================== claims

\* The POSTs in flight that the mounted Upload page issued.
LiveRequests == {r \in BagToSet(requests) : r.live}

\* C1: with no 'legalAnalysisData' entry in local storage, once a successful
\* Analyze has stored its result in the context and the app is on /analysis,
\* the app is not sent back to /upload.
C1_NotSentBackToUpload ==
  [][(OnAnalysis /\ storage = NoEntry /\ analysis # Null) => route' # "/upload"]_vars

\* C2: an Analyze click with a validated file selected (hasFile) issues a POST
\* whose multipart body carries that file.
C2_FileIsPosted ==
  [][(OnUpload /\ hasFile /\ Analyze) =>
       \E r \in BagToSet(requests' (-) requests) :
          r.body.field = "file" /\ r.body.value = fileObj]_vars

\* C3: when a fetch started by Retry succeeds, the results view is displayed.
C3_RetryRecovers ==
  [][\A f \in BagToSet(fetches) : \A response \in ResponsesWith(Payloads) :
        (f.origin = "retry" /\ ~response.rejected /\ response.ok /\ response.body # Null
           /\ FetchSettles(f, response))
        => AnalysisView' = "results"]_vars

\* C4: onFileSelected with a file of an advertised format (PDF, DOC, DOCX, TXT)
\* of at most 10 MB selects it: hasFile is true, the file is fileObj, no alert.
C4_AdvertisedFormatsAccepted ==
  [][\A selected \in Files :
        (selected.type \in AdvertisedTypes /\ selected.size <= MaxFileSize
           /\ FileSelected(selected))
        => (hasFile' /\ fileObj' = selected /\ alertMsg' = NoAlert)]_vars

C6_OversizedFileRefused ==
  [][\A selected \in Files :
        selected.size > MaxFileSize =>
          /\ handleFileChange(selected)
               => (alertMsg' # NoAlert /\ (AnalyzeDisabled => AnalyzeDisabled'))
          /\ FileSelected(selected)
               => (alertMsg' # NoAlert /\ hasFile' = hasFile)]_vars

\* C7: when the request of analyze fails (the fetch rejects or the response is
\* not ok), an alert is shown, the analysis context is unchanged, the route is
\* unchanged, and loading of the Upload page that issued it is false.
C7_FailedAnalysis ==
  [][\A r \in BagToSet(requests) : \A response \in ResponsesWith(PostPayloads) :
        ((response.rejected \/ ~response.ok) /\ PostSettles(r, response))
        => /\ alertMsg' # NoAlert
           /\ analysis' = analysis
           /\ route' = route
           /\ r.live => ~upLoading']_vars

\* C7 witness: a request failed with a non-2xx response: its alert is up, the
\* Upload page is still shown with loading false, and the context is still null.
C7_Witness ==
  /\ OnUpload
  /\ alertMsg = "Server error: 500"
  /\ ~upLoading
  /\ analysis = Null
  /\ requests = EmptyBag

\* C8: every Analyze click that passes the empty-input check issues exactly one
\* request.
C8_OneRequestPerClick ==
  [][(OnUpload /\ ~EmptyInput(hasFile, pasteText) /\ Analyze)
       => BagCardinality(requests') = BagCardinality(requests) + 1]_vars

\* C9: on the Upload page the loading overlay is visible exactly while a request
\* of that page is in flight.
C9_OverlayTracksRequests ==
  OnUpload => (upLoading <=> LiveRequests # {})

\* C10: on the results view, for a risk score in 0..10, getRiskLevel gives High
\* Risk exactly for 8..10, Medium Risk exactly for 5..7, Low Risk exactly for
\* 0..4, and the CSS class of the same level as the label.
C10_RiskPartition ==
  (OnAnalysis /\ AnalysisView = "results" /\ analysisData.Risk_Score \in 0..MaxScore) =>
    LET score == analysisData.Risk_Score IN
    /\ (riskInfo.level = "High Risk") <=> (score \in 8..10)
    /\ (riskInfo.level = "Medium Risk") <=> (score \in 5..7)
    /\ (riskInfo.level = "Low Risk") <=> (score \in 0..4)
    /\ <<riskInfo.level, riskInfo.class>> \in
         {<<"High Risk", "high-risk">>, <<"Medium Risk", "medium-risk">>,
          <<"Low Risk", "low-risk">>}

\* C10 witness: the results view renders a payload whose score is the lowest of
\* the High band.
C10_Witness ==
  /\ OnAnalysis
  /\ AnalysisView = "results"
  /\ analysisData.Risk_Score = 8
  /\ riskInfo.level = "High Risk"

\* C11: in both upload UIs a file dropped on the upload area becomes the selected
\* file exactly as choosing it through Browse Files does: in DocumentUpload it
\* is `file`, on the Upload page the selection state and the alert are those
\* onFileSelected leaves.
C11_DropSelectsFile ==
  [][\A dropped \in Files :
        /\ handleDrop(dropped) => file' = dropped
        /\ DropOnUploadArea(dropped) =>
             LET chosen == onFileSelected(dropped, hasFile, fileObj) IN
             /\ hasFile' = chosen.hasFile
             /\ fileObj' = chosen.fileObj
             /\ alertMsg' = chosen.alert]_vars

\* C12: while the Analysis page is mounted with no 'legalAnalysisData' entry in
\* local storage, no fetch has been started and the 300 ms redirect is pending,
\* and its firing takes the app to /upload; while it is mounted with an entry,
\* the fetch has been started (it is in flight or has settled) and no redirect
\* is scheduled.
C12_HandOff ==
  /\ [](OnAnalysis =>
          IF storage = NoEntry
          THEN redirectTimer /\ fetches = EmptyBag /\ loading
          ELSE ~redirectTimer /\ (fetches # EmptyBag \/ ~loading))
  /\ [][RedirectFires => route' = "/upload"]_vars

\* C12 amended: the entry counts as missing also when it is the empty string.
C12_HandOffNonEmpty ==
  /\ [](OnAnalysis =>
          IF storage = NoEntry \/ storage = ""
          THEN redirectTimer /\ fetches = EmptyBag /\ loading
          ELSE ~redirectTimer /\ (fetches # EmptyBag \/ ~loading))
  /\ [][RedirectFires => route' = "/upload"]_vars

\* C12 witness: the page is mounted with an empty-string entry and waits for
\* its redirect, with no fetch in flight.
C12_Witness ==
  /\ OnAnalysis
  /\ storage = ""
  /\ redirectTimer
  /\ fetches = EmptyBag

\* How many entries of the sequence `entries` equal `entry`.
Occurrences(entries, entry) == Cardinality({i \in DOMAIN entries : entries[i] = entry})

C14_EmptyInputGuard ==
  [][((Analyze \/ AnalyzeDemo) /\ ~hasFile /\ Trim(pasteText) = <<>>) =>
       /\ alertMsg' = "Please upload a document or paste text to analyze."
       /\ requests' = requests
       /\ upLoading' = upLoading
       /\ analysis' = analysis
       /\ route' = route]_vars

\* C14 witness: Analyze was clicked over a pasted blank: the alert is up, the
\* page is still shown, nothing is in flight, loading is false and the context
\* is still null.
C14_Witness ==
  /\ OnUpload
  /\ alertMsg = "Please upload a document or paste text to analyze."
  /\ ~hasFile
  /\ pasteText = <<" ">>
  /\ ~upLoading
  /\ requests = EmptyBag
  /\ analysis = Null

\* C15: on the results view, whichever of High_Risk, Medium_Risk and Low_Risk
\* the payload carries, Risks Found is the sum of the lengths of the buckets
\* present, a bucket's section is rendered exactly when the bucket is present
\* and not empty, and the no-risks message is rendered exactly when Risks Found
\* is 0.
C15_OptionalBuckets ==
  (OnAnalysis /\ AnalysisView = "results") =>
    LET Size(bucket) == IF bucket.present THEN Len(bucket.items) ELSE 0
        buckets == {analysisData.High_Risk, analysisData.Medium_Risk, analysisData.Low_Risk}
    IN
    /\ RisksFound(analysisData) = Size(analysisData.High_Risk)
          + Size(analysisData.Medium_Risk) + Size(analysisData.Low_Risk)
    /\ \A bucket \in buckets :
          RiskSectionRendered(bucket) <=> (bucket.present /\ bucket.items # <<>>)
    /\ NoRisksRendered(analysisData) <=> (RisksFound(analysisData) = 0)

\* C15 witness: the results view renders a payload with a filled High_Risk, an
\* empty Medium_Risk and no Low_Risk: one risk found, one section, no message.
C15_Witness ==
  /\ OnAnalysis
  /\ AnalysisView = "results"
  /\ analysisData = Assessment(9, Bucket(<<"h1">>), Bucket(<<>>), Absent)
  /\ RisksFound(analysisData) = 1
  /\ RiskSectionRendered(analysisData.High_Risk)
  /\ ~RiskSectionRendered(analysisData.Medium_Risk)
  /\ ~RiskSectionRendered(analysisData.Low_Risk)
  /\ ~NoRisksRendered(analysisData)

\* C16: in DocumentUpload, Analyze is triggered only when isAnalyzing is false
\* and a file or non-empty text is present; the trigger sets isAnalyzing and
\* one 3 s timer; the timer's firing shows the completion alert and sets
\* isAnalyzing of the component that set it back to false; and at most one
\* simulated analysis is pending at any time.
C16_OneAnalysisPending ==
  /\ [][handleAnalyze =>
         /\ ~isAnalyzing /\ (file # Null \/ text # <<>>)
         /\ isAnalyzing'
         /\ BagCardinality(timers') = BagCardinality(timers) + 1]_vars
  /\ [][\A timer \in BagToSet(timers) :
           AnalyzeTimerFires(timer) =>
             /\ alertMsg' = "Document analysis complete! (This is a demo)"
             /\ timer.live => ~isAnalyzing']_vars
  /\ [](BagCardinality(timers) <= 1)

\* C16 amended: at most one simulated analysis of the mounted DocumentUpload is
\* pending, and it is pending exactly while isAnalyzing is true; analyses
\* started before the component was left may be pending beside it.
C16_OneLiveAnalysisPending ==
  /\ [][handleAnalyze =>
         /\ ~isAnalyzing /\ (file # Null \/ text # <<>>)
         /\ isAnalyzing'
         /\ BagCardinality(timers') = BagCardinality(timers) + 1]_vars
  /\ [][\A timer \in BagToSet(timers) :
           AnalyzeTimerFires(timer) =>
             /\ alertMsg' = "Document analysis complete! (This is a demo)"
             /\ timer.live => ~isAnalyzing']_vars
  /\ [](CopiesIn([live |-> TRUE], timers) = IF isAnalyzing THEN 1 ELSE 0)

\* C16 witness: an analysis of the mounted DocumentUpload is pending beside one
\* started before the visitor went back to the home page.
C16_Witness ==
  /\ OnDocumentUpload
  /\ isAnalyzing
  /\ timers = One([live |-> TRUE]) (+) One([live |-> FALSE])

\* C17: a click on a suggested question only copies the question into the
\* input box: the chat messages, the reply timers and the active tab are
\* unchanged.
C17_QuestionClickOnlyFillsInput ==
  [][\A question \in SuggestedQuestions :
        handleQuestionClick(question) =>
          /\ currentMessage' = question
          /\ chatMessages' = chatMessages
          /\ replyTimers' = replyTimers
          /\ activeTab' = activeTab]_vars

\* C17 witness: the suggested question is in the input box of the Q&A tab and
\* the chat still holds the greeting only, with no reply pending.
C17_Witness ==
  /\ OnQATab
  /\ currentMessage \in SuggestedQuestions
  /\ chatMessages = <<Greeting>>
  /\ replyTimers = <<>>

\* The Upload page as a mount leaves it when the entry is valid JSON with the
\* pasteText "a", and when the entry is absent or is not valid JSON.
RestoredFrom(stored, tab, pasted, hf, fo) ==
  /\ stored = "{pasteText}" => (tab = "paste" /\ pasted = <<"a">>)
  /\ stored \in {NoEntry, "", "{"} =>
       (tab = "upload" /\ pasted = <<>> /\ ~hf /\ fo = Null)

\* C18: the Upload page mounts (at the start of the app, or by a navigation
\* to /upload from another page) on the paste tab with the stored text when
\* 'legalAnalysisData' holds valid JSON with a non-empty pasteText, and in its
\* default state (upload tab, empty text, no file) when the entry is absent or
\* is not valid JSON; the mount shows no alert.
C18_RestoreOnMount ==
  /\ route = "/upload" =>
       (RestoredFrom(storage, upActiveTab, pasteText, hasFile, fileObj)
          /\ alertMsg = NoAlert)
  /\ [][(route # "/upload" /\ route' = "/upload") =>
          /\ RestoredFrom(storage', upActiveTab', pasteText', hasFile', fileObj')
          /\ alertMsg' = NoAlert]_vars

\* C18 witness: the visitor came back from the home page to an Upload page
\* that mounted on the paste tab with the stored text.
C18_Witness ==
  /\ OnUpload
  /\ storage = "{pasteText}"
  /\ upActiveTab = "paste"
  /\ pasteText = <<"a">>
  /\ ~hasFile
  /\ alertMsg = NoAlert
  /\ analysis # Null

\* C19: on the results view activeTab is one of summary, risk, terms and qa,
\* and exactly one of the four panels is displayed, the one activeTab names;
\* activeTab is summary when the results view first shows; a tab click
\* selects its tab and changes neither the chat messages nor the input box.
C19_ResultsTabs ==
  /\ []((OnAnalysis /\ AnalysisView = "results") =>
          /\ activeTab \in Tabs
          /\ {tab \in Tabs : PanelDisplay(tab) = "block"} = {activeTab})
  /\ [][(OnAnalysis /\ AnalysisView # "results" /\ OnAnalysis' /\ AnalysisView' = "results")
          => activeTab' = "summary"]_vars
  /\ [][\A tabName \in Tabs :
          handleTabClick(tabName) =>
            /\ activeTab' = tabName
            /\ chatMessages' = chatMessages
            /\ currentMessage' = currentMessage]_vars

\* C19 witness: after a message was sent and answered and another was typed,
\* the visitor switched to the risk tab; chat and input box are as they were.
C19_Witness ==
  /\ OnAnalysis
  /\ AnalysisView = "results"
  /\ activeTab = "risk"
  /\ PanelDisplay("risk") = "block"
  /\ PanelDisplay("qa") = "none"
  /\ Len(chatMessages) = 3
  /\ currentMessage = <<"a">>

\* C20: on the Upload page hasFile is true exactly when fileObj holds a file.
C20_SelectionAgrees ==
  OnUpload => (hasFile <=> fileObj # Null)

\* C21: while the Analysis page stays mounted the chat log only grows at its
\* end (every step leaves the entries it had in place); its first entry is
\* always the greeting; and the assistant entries are at most the user
\* entries plus one.
C21_ChatAppendOnly ==
  /\ [][(OnAnalysis /\ OnAnalysis') =>
          /\ Len(chatMessages') >= Len(chatMessages)
          /\ SubSeq(chatMessages', 1, Len(chatMessages)) = chatMessages]_vars
  /\ [](chatMessages # <<>> /\ chatMessages[1] = Greeting)
  /\ [](Cardinality(DOMAIN chatMessages \ UserMessages) <= Cardinality(UserMessages) + 1)

\* C21 witness: two messages were sent and the first was answered; the chat
\* holds the greeting and the three entries in the order they were appended.
C21_Witness ==
  /\ OnAnalysis
  /\ chatMessages = <<Greeting, Message("user", <<"a">>), Message("user", <<"a">>),
                      Message("assistant", Reply(<<"a">>))>>
  /\ Len(replyTimers) = 1

\* C22: the assistant replies after the greeting answer the user messages in
\* the order these were sent: the i-th reply quotes the i-th user message.
C22_RepliesInOrder ==
  LET IsUser(m) == m.type = "user"
      IsReply(m) == m.type = "assistant"
      users == SelectSeq(chatMessages, IsUser)
      replies == SelectSeq(Tail(chatMessages), IsReply)
  IN OnAnalysis =>
       /\ Len(replies) <= Len(users)
       /\ \A i \in 1..Len(replies) : replies[i].content = Reply(users[i].content)

\* C22 witness: two different messages were sent before the first reply
\* arrived: the chat reads user, user, reply, reply, each reply in the order
\* of its question and the first one not next to its question.
C22_Witness ==
  /\ OnAnalysis
  /\ chatMessages = <<Greeting, Message("user", <<"a">>), Message("user", <<"q">>),
                      Message("assistant", Reply(<<"a">>)),
                      Message("assistant", Reply(<<"q">>))>>
  /\ replyTimers = <<>>

\* C23: with an empty or white-space-only input box the send button is
\* disabled, and Enter changes neither the chat log nor the input box and sets
\* no reply timer; the send button acts on a non-blank input only.
C23_BlankSendIsNoOp ==
  /\ []((OnQATab /\ Trim(currentMessage) = <<>>) => SendDisabled)
  /\ [][SendClick => Trim(currentMessage) # <<>>]_vars
  /\ [][(handleKeyPress("Enter") /\ Trim(currentMessage) = <<>>) =>
          /\ chatMessages' = chatMessages
          /\ currentMessage' = currentMessage
          /\ replyTimers' = replyTimers]_vars

\* C23 witness: after one answered message the input box holds a blank; the
\* log has not grown beyond that exchange and no timer is pending.
C23_Witness ==
  /\ OnQATab
  /\ currentMessage = <<" ">>
  /\ SendDisabled
  /\ Len(chatMessages) = 3
  /\ replyTimers = <<>>

C26_OneFetchInFlight ==
  /\ [](OnAnalysis => (BagCardinality(fetches) <= 1 /\ (fetches # EmptyBag => loading)))
  /\ [][Retry => (~loading /\ loading')]_vars
  /\ [][(OnAnalysis /\ OnAnalysis' /\ BagCardinality(fetches') < BagCardinality(fetches))
          => ~loading']_vars

\* C26 witness: after a failed fetch Retry was clicked: its fetch is the only
\* one in flight and loading is true again.
C26_Witness ==
  /\ OnAnalysis
  /\ loading
  /\ error # NoError
  /\ fetches = One([origin |-> "retry"])

\* C27: a step that leaves the Analysis page leaves no redirect timer behind:
\* the timer is pending only while that page is mounted, so that it fires,
\* and navigates to /upload, on the Analysis page only.
C27_RedirectCancelledOnUnmount ==
  /\ [][(OnAnalysis /\ ~OnAnalysis') => ~redirectTimer']_vars
  /\ [](redirectTimer => OnAnalysis)
  /\ [][RedirectFires => OnAnalysis]_vars

\* C27 witness: the home page is shown with the context set and no entry in
\* local storage: the visitor went Back to it from an Analysis page that was
\* waiting for its redirect, and no timer is pending.
C27_Witness ==
  /\ app = "router"
  /\ route = "/"
  /\ analysis # Null
  /\ storage = NoEntry
  /\ ~redirectTimer

\* C28: in the plain app Back to Home cancels no simulated analysis (as many
\* timers are pending after it as before); a timer that fires while the home
\* page is shown shows the completion alert there; and entering the upload
\* page mounts DocumentUpload afresh: upload tab, no file, empty text,
\* isAnalyzing false.
C28_AnalysisSurvivesNavigation ==
  /\ [][navigateToHome => BagCardinality(timers') = BagCardinality(timers)]_vars
  /\ [][\A timer \in BagToSet(timers) :
          (currentPage = "home" /\ AnalyzeTimerFires(timer)) =>
            /\ alertMsg' = "Document analysis complete! (This is a demo)"
            /\ currentPage' = "home"]_vars
  /\ [][navigateToUpload =>
          /\ uploadMethod' = "upload"
          /\ file' = Null
          /\ text' = <<>>
          /\ ~isAnalyzing']_vars

\* C28 witness: the completion alert is up over the home page, and no timer is
\* left.
C28_Witness ==
  /\ app = "plain"
  /\ currentPage = "home"
  /\ alertMsg = "Document analysis complete! (This is a demo)"
  /\ timers = EmptyBag

====
